---- MODULE Spec2Model ----
(***************************************************************************)
(* Model of porc.py (Python Open Room Correction): the helper functions    *)
(* rceps, parfilt and norm, and the roomcomp pipeline driven by main.      *)
(*                                                                         *)
(* Time-domain samples are exact extended rationals <<n, d>> (d >= 0,      *)
(* reduced); <<0, 0>> is IEEE NaN and <<1, 0>>, <<-1, 0>> are the          *)
(* infinities, so that a float division by zero yields what numpy yields   *)
(* when warnings are ignored.  Rounding of finite floats is not modelled.  *)
(* Arrays that only exist behind fft/log/exp (cepstrum, spectra) carry     *)
(* their length and the name of their producer, not numeric values.        *)
(***************************************************************************)
EXTENDS Integers, Sequences, FiniteSets, TLC

VARIABLES
    \* ---- roomcomp / main ----
    pc,            \* position in main/roomcomp
    args,          \* argparse namespace: target (value, object identity), ntaps
    Fs,            \* sample rate returned by wavfile.read
    data,          \* measured response (raw, then normalised)
    plog,          \* pole set
    minresp,       \* minimum-phase response returned by rceps
    outf,          \* target response
    filt,          \* (Bm, Am, FIR) returned by parfiltid
    equalizedresp, \* norm(parfilt(Bm, Am, FIR, data))
    equalizer,     \* equalizer spectrum, then equalizer impulse response
    files,         \* what wavfile.write has written, in order
    wav,           \* content of the impulse response file
    loaded,        \* paths handed to np.loadtxt, in order
    trace,         \* stages completed so far, in order
    failedAt,      \* the stage that raised, or "none"
    \* ---- norm called on its own ----
    nx, ny1, ny2, npc,
    \* ---- parfilt called on its own ----
    fBm, fAm, fFIR, fx1, fx2, fy1, fy2, fy12, fpc,
    \* ---- rceps called on its own ----
    rn, rw, rpc

roomVars == <<pc, args, Fs, data, plog, minresp, outf, filt, equalizedresp,
              equalizer, files, wav, loaded, trace, failedAt>>
normVars == <<nx, ny1, ny2, npc>>
parVars  == <<fBm, fAm, fFIR, fx1, fx2, fy1, fy2, fy12, fpc>>
rcVars   == <<rn, rw, rpc>>
vars     == <<roomVars, normVars, parVars, rcVars>>

(***************************************************************************)
(* Bounds of the model                                                     *)
(***************************************************************************)
MaxLen == 3        \* longest signal handed to norm on its own
MaxAmp == 2        \* largest sample magnitude handed to norm on its own
MaxWin == 64       \* longest input handed to rceps on its own
MaxSections == 2   \* most columns of Bm, Am handed to parfilt on its own
MaxSig == 3        \* longest input handed to parfilt on its own
MaxData == 4       \* longest impulse response file read by roomcomp
MaxTaps == 4       \* largest -n NTAPS given to main
MaxRate == 480     \* largest sample rate handed to the pole grid, in units of 100 Hz

(***************************************************************************)
(* float64 arithmetic, exact on rationals, with NaN and infinities         *)
(***************************************************************************)
Abs(i) == IF i < 0 THEN -i ELSE i

Sign(i) == IF i < 0 THEN -1 ELSE IF i > 0 THEN 1 ELSE 0

RECURSIVE GCD(_, _)
GCD(a, b) == IF b = 0 THEN a ELSE GCD(b, a % b)

Rat(n, d) ==
    IF d = 0 THEN <<Sign(n), 0>>
    ELSE LET g == GCD(Abs(n), Abs(d))
             s == IF d < 0 THEN -1 ELSE 1
         IN  <<(s * n) \div g, (s * d) \div g>>

NaN  == <<0, 0>>
Zero == <<0, 1>>
One  == <<1, 1>>

FromInt(i) == <<i, 1>>

RAdd(a, b) ==
    IF a[2] = 0 /\ b[2] = 0
    THEN (IF a = b THEN a ELSE NaN)
    ELSE Rat(a[1] * b[2] + b[1] * a[2], a[2] * b[2])

RMul(a, b) == Rat(a[1] * b[1], a[2] * b[2])

RNeg(a) == <<-a[1], a[2]>>

RSub(a, b) == RAdd(a, RNeg(b))

\* a / b; x / 0 is +-inf and 0 / 0 is NaN (numpy, warnings ignored)
RDiv(a, b) == RMul(a, Rat(b[2], b[1]))

RLess(a, b) == a[1] * b[2] < b[1] * a[2]

\* np.fabs, element-wise
fabs(y) == [i \in 1..Len(y) |-> <<Abs(y[i][1]), y[i][2]>>]

\* ndarray.max() of a non-empty array; NaN propagates
ArrMax(y) ==
    IF \E i \in 1..Len(y) : y[i] = NaN THEN NaN
    ELSE CHOOSE m \in {y[i] : i \in 1..Len(y)} :
             \A j \in 1..Len(y) : ~RLess(m, y[j])

Raised(e) == [err |-> e, val |-> <<>>]
Returned(v) == [err |-> "none", val |-> v]

(***************************************************************************)
(* norm: y / np.fabs(y).max().  max() of an empty array raises ValueError; *)
(* a zero maximum raises nothing, the quotient 0/0 is NaN.                 *)
(***************************************************************************)
normNoFabs(y) ==
    IF Len(y) = 0 THEN Raised("ValueError")
    ELSE Returned([i \in 1..Len(y) |-> RDiv(y[i], ArrMax(y))])

norm(y) ==
    IF Len(y) = 0 THEN Raised("ValueError")
    ELSE Returned([i \in 1..Len(y) |-> RDiv(y[i], ArrMax(fabs(y)))])

(***************************************************************************)
(* rceps: the minimum-phase window and its product with the cepstrum.      *)
(* n/2 is Python 2 integer division.  np.ones / np.zeros of a negative     *)
(* count raise ValueError; w*y follows numpy broadcasting: the shapes      *)
(* must be equal unless one of them is 1.                                  *)
(***************************************************************************)
Fill(v, k) == [i \in 1..k |-> v]

\* an array known only by its length: every slot carries the tag of its producer
Opaque(tag, n) == [i \in 1..n |-> tag]

RcepsWindowZeroCentre(n) ==
    LET a == (n \div 2) - 1
        b == 1 - (n % 2)
    IN  IF a < 0 THEN Raised("ValueError")
        ELSE Returned(<<1>> \o Fill(2, a) \o Fill(0, b) \o Fill(0, a))

RcepsWindow(n) ==
    LET a == (n \div 2) - 1
        b == 1 - (n % 2)
    IN  IF a < 0 THEN Raised("ValueError")
        ELSE Returned(<<1>> \o Fill(2, a) \o Fill(1, b) \o Fill(0, a))

Broadcastable(m, n) == m = n \/ m = 1 \/ n = 1

\* rceps(x) for an input of n samples: [err, w, ym]
rceps(n) ==
    IF n = 0 THEN [err |-> "ValueError", w |-> <<>>, ym |-> <<>>]   \* fft of an empty array
    ELSE LET win == RcepsWindow(n)
         IN  IF win.err # "none"
             THEN [err |-> win.err, w |-> <<>>, ym |-> <<>>]
             ELSE IF ~Broadcastable(Len(win.val), n)
             THEN [err |-> "ValueError", w |-> win.val, ym |-> <<>>]
             ELSE [err |-> "none", w |-> win.val, ym |-> Opaque("ym", n)]

(***************************************************************************)
(* scipy.signal.lfilter(b, a, x) with zero initial state:                  *)
(*   a[0]*y[n] = b[0]*x[n] + ... + b[nb]*x[n-nb] - a[1]*y[n-1] - ...       *)
(* A matrix is the sequence of its columns: Bm[k] is Bm[:,k-1].            *)
(***************************************************************************)
Min(a, b) == IF a < b THEN a ELSE b

RECURSIVE RSum(_)
RSum(s) == IF s = <<>> THEN Zero ELSE RAdd(Head(s), RSum(Tail(s)))

RECURSIVE LfilterRec(_, _, _, _)
LfilterRec(b, a, x, n) ==
    IF n = 0 THEN <<>>
    ELSE LET prev == LfilterRec(b, a, x, n - 1)
             ff   == RSum([j \in 1..Min(Len(b), n) |-> RMul(b[j], x[n - j + 1])])
             fb   == RSum([j \in 1..Min(Len(a) - 1, n - 1) |->
                              RMul(a[j + 1], prev[n - j])])
         IN  Append(prev, RDiv(RSub(ff, fb), a[1]))

lfilter(b, a, x) == LfilterRec(b, a, x, Len(x))

OnesArray(n) == [i \in 1..n |-> One]

\* np.zeros(n)
Zeros(n) == [i \in 1..n |-> Zero]

\* element-wise sum of two arrays of one length
VAdd(u, v) == [i \in 1..Len(u) |-> RAdd(u[i], v[i])]

\* a cascade: section k filters what the sections before it produced
ParfiltStepCascade(Bm, Am, x, k, y) ==
    IF k = 1 THEN lfilter(Bm[k], Am[k], x) ELSE lfilter(Bm[k], Am[k], y)

\* one pass of the loop body: y += np.ravel(sig.lfilter(Bm[:,k], Am[:,k], x))
ParfiltStep(Bm, Am, x, k, y) == VAdd(y, lfilter(Bm[k], Am[k], x))

\* for k in range(Am.shape[1])
RECURSIVE ParfiltLoop(_, _, _, _, _)
ParfiltLoop(Bm, Am, x, k, y) ==
    IF k > Len(Am) THEN y
    ELSE ParfiltLoop(Bm, Am, x, k + 1, ParfiltStep(Bm, Am, x, k, y))

parfilt(Bm, Am, FIR, x) ==
    VAdd(ParfiltLoop(Bm, Am, x, 1, Zeros(Len(x))), lfilter(FIR, <<One>>, x))

(***************************************************************************)
(* The helper functions called on their own, on inputs drawn from bounded  *)
(* sets.                                                                   *)
(***************************************************************************)
NoTarget == [value |-> "", obj |-> ""]

NoArgs == [impresp |-> "", filter |-> "", target |-> NoTarget, ntaps |-> 0]

NoFilter == [Bm |-> <<>>, Am |-> <<>>, FIR |-> <<>>]

NoWav == [rate |-> 0, samples |-> <<>>]

IdleRoom ==
    /\ pc = "idle" /\ args = NoArgs /\ wav = NoWav /\ Fs = 0 /\ data = <<>>
    /\ plog = <<>> /\ minresp = <<>> /\ outf = <<>> /\ filt = NoFilter
    /\ equalizedresp = <<>> /\ equalizer = <<>> /\ files = <<>>
    /\ loaded = <<>> /\ trace = <<>> /\ failedAt = "none"

IdleNorm == nx = <<>> /\ ny1 = <<>> /\ ny2 = <<>> /\ npc = "idle"

IdlePar ==
    /\ fBm = <<>> /\ fAm = <<>> /\ fFIR = <<>> /\ fx1 = <<>> /\ fx2 = <<>>
    /\ fy1 = <<>> /\ fy2 = <<>> /\ fy12 = <<>> /\ fpc = "idle"

IdleRceps == rn = 0 /\ rw = <<>> /\ rpc = "idle"

\* ---- norm ----
Signals(vals, lo, hi) == UNION {[1..n -> vals] : n \in lo..hi}

NormInputs == Signals({FromInt(v) : v \in -MaxAmp..MaxAmp}, 0, MaxLen)

InitNorm ==
    /\ nx \in NormInputs /\ ny1 = <<>> /\ ny2 = <<>> /\ npc = "start"
    /\ IdleRoom /\ IdlePar /\ IdleRceps

\* r = norm(x)
NormOnce ==
    /\ npc = "start"
    /\ LET r == norm(nx)
       IN  /\ ny1' = r.val
           /\ npc' = IF r.err = "none" THEN "once" ELSE "raised"
    /\ UNCHANGED <<nx, ny2, roomVars, parVars, rcVars>>

\* norm(r)
NormTwice ==
    /\ npc = "once"
    /\ LET r == norm(ny1)
       IN  /\ ny2' = r.val
           /\ npc' = IF r.err = "none" THEN "twice" ELSE "raised"
    /\ UNCHANGED <<nx, ny1, roomVars, parVars, rcVars>>

NextNorm == NormOnce \/ NormTwice

SpecNorm == InitNorm /\ [][NextNorm]_vars

\* ---- rceps ----
InitRceps ==
    /\ rn \in 1..MaxWin /\ rw = <<>> /\ rpc = "start"
    /\ IdleRoom /\ IdleNorm /\ IdlePar

RcepsCall ==
    /\ rpc = "start"
    /\ LET r == rceps(rn)
       IN  /\ rw' = r.w
           /\ rpc' = IF r.err = "none" THEN "returned" ELSE "raised"
    /\ UNCHANGED <<rn, roomVars, normVars, parVars>>

NextRceps == RcepsCall

SpecRceps == InitRceps /\ [][NextRceps]_vars

\* ---- parfilt ----
Vec(s) == [i \in 1..Len(s) |-> FromInt(s[i])]

\* second-order sections <<numerator, denominator>>, a[0] # 0
SectionSet ==
    { <<Vec(<<0, 1, -1>>), Vec(<<2, 1, 1>>)>>,
      <<Vec(<<1, 2, 1>>), Vec(<<1, 0, -1>>)>> }

FirSet == { Vec(<<1>>), Vec(<<1, -1>>) }

FilterSamples == { FromInt(-1), FromInt(2) }

InitParfilt ==
    /\ \E K \in 1..MaxSections : \E secs \in [1..K -> SectionSet] :
          /\ fBm = [k \in 1..K |-> secs[k][1]]
          /\ fAm = [k \in 1..K |-> secs[k][2]]
    /\ fFIR \in FirSet
    /\ \E L \in 1..MaxSig : fx1 \in [1..L -> FilterSamples] /\ fx2 \in [1..L -> FilterSamples]
    /\ fy1 = <<>> /\ fy2 = <<>> /\ fy12 = <<>> /\ fpc = "start"
    /\ IdleRoom /\ IdleNorm /\ IdleRceps

ParfiltOnX1 ==
    /\ fpc = "start"
    /\ fy1' = parfilt(fBm, fAm, fFIR, fx1)
    /\ fpc' = "x1"
    /\ UNCHANGED <<fBm, fAm, fFIR, fx1, fx2, fy2, fy12, roomVars, normVars, rcVars>>

ParfiltOnX2 ==
    /\ fpc = "x1"
    /\ fy2' = parfilt(fBm, fAm, fFIR, fx2)
    /\ fpc' = "x2"
    /\ UNCHANGED <<fBm, fAm, fFIR, fx1, fx2, fy1, fy12, roomVars, normVars, rcVars>>

ParfiltOnSum ==
    /\ fpc = "x2"
    /\ fy12' = parfilt(fBm, fAm, fFIR, VAdd(fx1, fx2))
    /\ fpc' = "done"
    /\ UNCHANGED <<fBm, fAm, fFIR, fx1, fx2, fy1, fy2, roomVars, normVars, rcVars>>

NextParfilt == ParfiltOnX1 \/ ParfiltOnX2 \/ ParfiltOnSum

SpecParfilt == InitParfilt /\ [][NextParfilt]_vars

(***************************************************************************)
(* roomcomp: pole positioning                                              *)
(*   wp = 2*pi*fplog/Fs;  p = R**(wp/pi) * exp(1j*wp);  plog = (p, conj p) *)
(* A pole is kept in polar form: [rexp, arg] stands for                    *)
(* R**rexp * exp(1j*pi*arg), so its magnitude is R**rexp.                  *)
(***************************************************************************)
R == <<1, 2>>

\* sp.logspace(log10(lo), log10(hi), num) at its two call sites, to the nearest Hz
LogspaceHz(lo, hi, num) ==
    CASE <<lo, hi, num>> = <<30, 200, 13>> ->
           <<30, 35, 41, 48, 56, 66, 77, 91, 106, 124, 146, 171, 200>>
      [] <<lo, hi, num>> = <<250, 18000, 12>> ->
           <<250, 369, 544, 803, 1184, 1747, 2577, 3801, 5607, 8271, 12202, 18000>>

fplog == LogspaceHz(30, 200, 13) \o LogspaceHz(250, 18000, 12)

PoleFixedRadius(f, fs) == [rexp |-> One, arg |-> Rat(2 * f, fs)]

\* wp/pi = 2*f/Fs is both the exponent of R and the angle in units of pi
Pole(f, fs) == [rexp |-> Rat(2 * f, fs), arg |-> Rat(2 * f, fs)]

\* np.conj
Conj(p) == [p EXCEPT !.arg = RNeg(@)]

PoleGridRepeated(fs) ==
    LET p == [i \in 1..Len(fplog) |-> Pole(fplog[i], fs)]
    IN  p \o p

PoleGrid(fs) ==
    LET p == [i \in 1..Len(fplog) |-> Pole(fplog[i], fs)]
    IN  p \o [i \in 1..Len(p) |-> Conj(p[i])]

\* |p| as a power of R; two such powers are equal iff the exponents are (0 < R < 1)
Magnitude(p) == [base |-> R, exp |-> p.rexp]

RadiusR == [base |-> R, exp |-> One]

(***************************************************************************)
(* roomcomp: target selection, resampling                                  *)
(***************************************************************************)
\* the string constant 'flat' of the module: one interned object, shared by the
\* option's default and by the comparison in roomcomp
FlatLiteral == [value |-> "flat", obj |-> "const:flat"]

\* a string argparse hands over from sys.argv: an object of its own
ArgvString(v) == [value |-> v, obj |-> "argv:-t"]

\* target is 'flat': object identity
TargetIsFlat(target) == target.obj = FlatLiteral.obj

\* imp = np.zeros(n); imp[0] = 1.0
Impulse(n) == [i \in 1..n |-> IF i = 1 THEN One ELSE Zero]

\* sp.fft / sp.ifft: an array of the same length
fft(x) == Opaque("bin", Len(x))

ResampleKeepsLength(x, num) == [i \in 1..Len(x) |-> i]

\* sig.resample(x, num, window): the num slots of the resampled spectrum; slot i
\* holds bin Y[i] of the windowed fft of x, or 0 where it is zero-padded
resample(x, num) ==
    LET Nx == Len(x)
        N  == Min(num, Nx)
    IN  [i \in 1..num |->
            IF i <= (N + 1) \div 2 THEN i
            ELSE IF i > num - ((N - 1) \div 2) THEN Nx - (num - i)
            ELSE 0]

(***************************************************************************)
(* main and roomcomp, one action per statement group.  An exception        *)
(* propagates out of roomcomp and main: nothing catches it.                *)
(***************************************************************************)
Successor(order, s) ==
    LET i == CHOOSE j \in 1..Len(order) : order[j] = s
    IN  IF i = Len(order) THEN "done" ELSE order[i + 1]

StageOrder ==
    <<"main", "read", "norm", "poles", "rceps", "target", "ident",
      "synth_data", "synth_imp", "final", "write", "plots">>

AfterSkippingSynthesis(s) ==
    IF s = "ident" THEN "write" ELSE Successor(StageOrder, s)

After(s) == Successor(StageOrder, s)

Advance(s) == pc' = After(s) /\ trace' = Append(trace, s) /\ UNCHANGED failedAt

Raise(s) == pc' = "aborted" /\ failedAt' = s /\ UNCHANGED trace

SampleRates == {36000, 44100}

PcmSamples == {FromInt(-2), FromInt(0), FromInt(1)}

WavFiles ==
    {[rate |-> r, samples |-> x] : r \in SampleRates, x \in Signals(PcmSamples, 0, MaxData)}

InitRoom ==
    /\ pc = "main" /\ args = NoArgs
    /\ wav \in WavFiles
    /\ Fs = 0 /\ data = <<>> /\ plog = <<>> /\ minresp = <<>> /\ outf = <<>>
    /\ filt = NoFilter /\ equalizedresp = <<>> /\ equalizer = <<>>
    /\ files = <<>> /\ loaded = <<>> /\ trace = <<>> /\ failedAt = "none"
    /\ IdleNorm /\ IdlePar /\ IdleRceps

\* main: parser.parse_args(); roomcomp(args.impresp, args.filter, args.target, args.ntaps)
ParseArgs ==
    /\ pc = "main"
    /\ \E t \in {FlatLiteral, ArgvString("flat"), ArgvString("bk.txt")},
          n \in 1..MaxTaps :
          args' = [impresp |-> "l48.wav", filter |-> "leq48.wav",
                   target |-> t, ntaps |-> n]
    /\ Advance("main")
    /\ UNCHANGED <<wav, Fs, data, plog, minresp, outf, filt, equalizedresp,
                   equalizer, files, loaded,
                   normVars, parVars, rcVars>>

\* Fs, data = wavfile.read(impresp)
ReadWav ==
    /\ pc = "read"
    /\ \/ /\ Fs' = wav.rate /\ data' = wav.samples
          /\ Advance("read")
       \/ /\ Raise("read")
          /\ UNCHANGED <<Fs, data>>
    /\ UNCHANGED <<args, wav, plog, minresp, outf, filt, equalizedresp,
                   equalizer, files, loaded,
                   normVars, parVars, rcVars>>

\* data = norm(np.hstack(data))
NormData ==
    /\ pc = "norm"
    /\ LET r == norm(data)
       IN  IF r.err = "none"
           THEN data' = r.val /\ Advance("norm")
           ELSE UNCHANGED data /\ Raise("norm")
    /\ UNCHANGED <<args, wav, Fs, plog, minresp, outf, filt, equalizedresp,
                   equalizer, files, loaded,
                   normVars, parVars, rcVars>>

\* R, fplog, wp, p, plog
PolePositioning ==
    /\ pc = "poles"
    /\ plog' = PoleGrid(Fs)
    /\ Advance("poles")
    /\ UNCHANGED <<args, wav, Fs, data, minresp, outf, filt, equalizedresp,
                   equalizer, files, loaded,
                   normVars, parVars, rcVars>>

\* cp, minresp = rceps(data)
MinimumPhase ==
    /\ pc = "rceps"
    /\ LET r == rceps(Len(data))
       IN  IF r.err = "none"
           THEN minresp' = r.ym /\ Advance("rceps")
           ELSE UNCHANGED minresp /\ Raise("rceps")
    /\ UNCHANGED <<args, wav, Fs, data, plog, outf, filt, equalizedresp,
                   equalizer, files, loaded,
                   normVars, parVars, rcVars>>

\* output, outf: the flat target, or the target file resampled to len(minresp)
BuildTarget ==
    /\ pc = "target"
    /\ IF TargetIsFlat(args.target)
       THEN /\ outf' = Opaque("flat", Len(minresp))
            /\ Advance("target")
            /\ UNCHANGED loaded
       ELSE /\ loaded' = Append(loaded, args.target.value)
            /\ \/ outf' = Opaque("curve", Len(minresp)) /\ Advance("target")
               \/ UNCHANGED outf /\ Raise("target")
    /\ UNCHANGED <<args, wav, Fs, data, plog, minresp, filt, equalizedresp,
                   equalizer, files,
                   normVars, parVars, rcVars>>

\* what parfiltid may return: Bm, Am with one column per section, and FIR
FilterBank ==
    { [Bm |-> <<Vec(<<1, 0, 0>>)>>, Am |-> <<Vec(<<1, -1, 0>>)>>, FIR |-> Vec(<<1>>)],
      [Bm |-> <<Vec(<<0, 1, -1>>), Vec(<<1, 2, 1>>)>>,
       Am |-> <<Vec(<<2, 1, 1>>), Vec(<<1, 0, -1>>)>>, FIR |-> Vec(<<1, -1>>)] }

\* (Bm, Am, FIR) = parfiltid(minresp, outf, plog)
Identify ==
    /\ pc = "ident"
    /\ \/ \E f \in FilterBank : filt' = f /\ Advance("ident")
       \/ UNCHANGED filt /\ Raise("ident")
    /\ UNCHANGED <<args, wav, Fs, data, plog, minresp, outf, equalizedresp,
                   equalizer, files, loaded,
                   normVars, parVars, rcVars>>

\* equalizedresp = norm(parfilt(Bm, Am, FIR, data))
SynthesizeData ==
    /\ pc = "synth_data"
    /\ LET r == norm(parfilt(filt.Bm, filt.Am, filt.FIR, data))
       IN  IF r.err = "none"
           THEN equalizedresp' = r.val /\ Advance("synth_data")
           ELSE UNCHANGED equalizedresp /\ Raise("synth_data")
    /\ UNCHANGED <<args, wav, Fs, data, plog, minresp, outf, filt,
                   equalizer, files, loaded,
                   normVars, parVars, rcVars>>

\* imp; equalizer = sp.fft(parfilt(Bm, Am, FIR, imp))
SynthesizeImpulse ==
    /\ pc = "synth_imp"
    /\ equalizer' = fft(parfilt(filt.Bm, filt.Am, filt.FIR, Impulse(Len(data))))
    /\ Advance("synth_imp")
    /\ UNCHANGED <<args, wav, Fs, data, plog, minresp, outf, filt,
                   equalizedresp, files, loaded,
                   normVars, parVars, rcVars>>

\* equalizer = sig.resample(equalizer, ntaps, window='hanning')
\* equalizer = norm(np.real(sp.ifft(equalizer)))   (ifft, real and norm keep the length)
Finalize ==
    /\ pc = "final"
    /\ equalizer' = Opaque("tap", Len(resample(equalizer, args.ntaps)))
    /\ Advance("final")
    /\ UNCHANGED <<args, wav, Fs, data, plog, minresp, outf, filt,
                   equalizedresp, files, loaded,
                   normVars, parVars, rcVars>>

\* wavfile.write(filter, Fs, equalizer)
WriteWav ==
    /\ pc = "write"
    /\ \/ /\ files' = Append(files, [name |-> args.filter, rate |-> Fs,
                                     samples |-> equalizer])
          /\ Advance("write")
       \/ /\ Raise("write")
          /\ UNCHANGED files
    /\ UNCHANGED <<args, wav, Fs, data, plog, minresp, outf, filt,
                   equalizedresp, equalizer, loaded,
                   normVars, parVars, rcVars>>

\* the prints and the plots
Plots ==
    /\ pc = "plots"
    /\ Advance("plots")
    /\ UNCHANGED <<args, wav, Fs, data, plog, minresp, outf, filt,
                   equalizedresp, equalizer, files, loaded,
                   normVars, parVars, rcVars>>

\* ---- pole positioning on its own, for every sample rate of the grid ----
PoleRates == {100 * k : k \in 1..MaxRate}

InitPoles ==
    /\ pc = "poles"
    /\ args = [impresp |-> "l48.wav", filter |-> "leq48.wav",
               target |-> FlatLiteral, ntaps |-> 1]
    /\ \E r \in PoleRates :
          /\ wav = [rate |-> r, samples |-> <<FromInt(1), FromInt(-2)>>]
          /\ Fs = r
    /\ data = norm(<<FromInt(1), FromInt(-2)>>).val
    /\ plog = <<>> /\ minresp = <<>> /\ outf = <<>>
    /\ filt = NoFilter /\ equalizedresp = <<>> /\ equalizer = <<>>
    /\ files = <<>> /\ loaded = <<>> /\ failedAt = "none"
    /\ trace = <<"main", "read", "norm">>
    /\ IdleNorm /\ IdlePar /\ IdleRceps

NextPoles == PolePositioning

SpecPoles == InitPoles /\ [][NextPoles]_vars

Next ==
    \/ ParseArgs \/ ReadWav \/ NormData \/ PolePositioning \/ MinimumPhase
    \/ BuildTarget \/ Identify \/ SynthesizeData \/ SynthesizeImpulse
    \/ Finalize \/ WriteWav \/ Plots

Spec == InitRoom /\ [][Next]_vars

(***************************************************************************)
(* Properties                                                              *)
(***************************************************************************)
InTrace(s) == \E i \in 1..Len(trace) : trace[i] = s

HasNonZero(x) == \E i \in 1..Len(x) : x[i][1] # 0

AllZero(x) == \A i \in 1..Len(x) : x[i] = Zero

\* C1: every array handed to wavfile.write, and the equalizer once finalized,
\* has exactly ntaps samples, whatever the length of the measured response.
C1_EqualizerHasNtaps ==
    /\ \A i \in 1..Len(files) : Len(files[i].samples) = args.ntaps
    /\ InTrace("final") => Len(equalizer) = args.ntaps

C1_Witness ==
    /\ Len(files) = 1
    /\ Len(files[1].samples) = 4
    /\ Len(data) = 2

\* C2: the output file is written at most once, only after every stage from
\* reading the input to finalization has completed, and never in a run in
\* which one of those stages raised.
C2_WriteOnlyAfterFullPipeline ==
    /\ Len(files) <= 1
    /\ Len(files) = 1 =>
          /\ Len(trace) >= 10
          /\ SubSeq(trace, 1, 10) =
                <<"main", "read", "norm", "poles", "rceps", "target", "ident",
                  "synth_data", "synth_imp", "final">>
          /\ failedAt = "none"
    /\ failedAt \in {"read", "norm", "poles", "rceps", "target", "ident",
                    "synth_data", "synth_imp", "final"}
          => pc = "aborted" /\ files = <<>>

C2_Witness == pc = "done" /\ Len(files) = 1 /\ failedAt = "none"

\* C3 (as claimed): norm of an all-zero signal raises, so a run whose measurement
\* is silent never gets past the normalization of the input.
C3_SilentMeasurementAborts ==
    (/\ wav.samples # <<>>
     /\ AllZero(wav.samples)
     /\ InTrace("read")
     /\ pc # "norm")
    => failedAt = "norm"

\* C4: for a signal with a non-zero sample norm returns a signal whose largest
\* absolute value is exactly 1, and norm of that result is the result itself.
C4_NormUnitPeakIdempotent ==
    HasNonZero(nx) =>
        /\ npc # "raised"
        /\ npc \in {"once", "twice"} => Len(ny1) = Len(nx) /\ ArrMax(fabs(ny1)) = One
        /\ npc = "twice" => ny2 = ny1

C4_Witness ==
    /\ npc = "twice"
    /\ \E i \in 1..Len(nx) : nx[i][1] = -2
    /\ \E i \in 1..Len(nx) : nx[i][1] = 1
    /\ ny1 # nx

\* C5: the pole set has 2 x (13 + 12) = 50 poles and holds the conjugate of
\* each of its poles.
C5_PoleSetConjugateClosed ==
    InTrace("poles") =>
        /\ Len(plog) = 50
        /\ \A i \in 1..Len(plog) : \E j \in 1..Len(plog) : plog[j] = Conj(plog[i])

C5_Witness == InTrace("poles") /\ Fs = 44100 /\ plog[26] = Conj(plog[1]) /\ plog[26] # plog[1]

\* C6 (as claimed): every pole of the pole set has magnitude R.
C6_EveryPoleOnRadiusR ==
    \A i \in 1..Len(plog) : Magnitude(plog[i]) = RadiusR

\* C6 (amended): the pole at grid frequency f has magnitude R^(2f/Fs); that is
\* strictly between R and 1 when f is below Fs/2, and it is R only when f = Fs/2.
C6_PoleRadiusFollowsFrequency ==
    \A i \in 1..Len(plog) :
        LET f == fplog[((i - 1) % Len(fplog)) + 1]
            e == plog[i].rexp
        IN  /\ Magnitude(plog[i]) = [base |-> R, exp |-> Rat(2 * f, Fs)]
            /\ 2 * f < Fs => RLess(Zero, e) /\ RLess(e, One)
            /\ Magnitude(plog[i]) = RadiusR <=> 2 * f = Fs

C6_Witness ==
    /\ InTrace("poles")
    /\ Fs = 36000
    /\ Magnitude(plog[25]) = RadiusR
    /\ Magnitude(plog[1]) = [base |-> R, exp |-> <<1, 600>>]

ParallelSum(Bm, Am, FIR, x) ==
    LET sec == <<>> \o [k \in 1..Len(Am) |-> lfilter(Bm[k], Am[k], x)]
        fir == lfilter(FIR, <<One>>, x)
    IN  [n \in 1..Len(x) |->
            RAdd(RSum([k \in 1..Len(Am) |-> sec[k][n]]), fir[n])]

\* C8: parfilt returns as many samples as its input has, each the sum over all
\* columns k of section (Bm[:,k], Am[:,k]) applied to the input itself, plus
\* the FIR filter applied to the input.
C8_ParfiltIsParallelSum ==
    /\ fpc = "x1" => Len(fy1) = Len(fx1) /\ fy1 = ParallelSum(fBm, fAm, fFIR, fx1)
    /\ fpc = "x2" => Len(fy2) = Len(fx2) /\ fy2 = ParallelSum(fBm, fAm, fFIR, fx2)

C8_Witness ==
    /\ fpc = "x1"
    /\ Len(fAm) = 2 /\ fAm[1] # fAm[2]
    /\ Len(fx1) = 3
    /\ fy1[3] # lfilter(fFIR, <<One>>, fx1)[3]

\* C9: parfilt of the sum of two signals of one length is the sum of parfilt of
\* each.
C9_ParfiltAdditive ==
    fpc = "done" => Len(fy12) = Len(fx1) /\ fy12 = VAdd(fy1, fy2)

C9_Witness ==
    /\ fpc = "done"
    /\ Len(fAm) = 2
    /\ Len(fx1) = 3 /\ fx1 # fx2
    /\ fy1 # fy2 /\ fy12 # fy1

\* C10 (as claimed): once the target is built, a target equal to "flat" has
\* selected the flat target and no file was handed to np.loadtxt; any other
\* value was handed to np.loadtxt.
C10_TargetSelectedByValue ==
    (InTrace("target") \/ failedAt = "target") =>
        IF args.target.value = "flat"
        THEN loaded = <<>> /\ outf = Opaque("flat", Len(minresp))
        ELSE loaded = <<args.target.value>>

====
